---- MODULE Spec2Model ----
(***************************************************************************)
(* Model of the crawl orchestration engine of WebScraper                   *)
(* (src/unnamed/part_006, second variant, lines 878-2121): scrapeWebsite,  *)
(* processSinglePage, processPageInternal, processPage, cleanup and        *)
(* handleShutdown, with the semaphore (async-sema), the LRU result cache   *)
(* (lru-cache) and the page pool they use.                                 *)
(*                                                                         *)
(* One visit is one call of processSinglePage.  A visit is named by the    *)
(* chain of URLs that led to it (<<root>>, <<root, link>>, ...), which is  *)
(* unique because the links of one page are de-duplicated.  Every action   *)
(* is one run of the event loop: the code between two awaits.              *)
(*                                                                         *)
(* Spec follows a crawl, with the content pipeline (processPageContent,    *)
(* processWithLLM, saveToFile), a second scrapeWebsite call and the        *)
(* shutdown report.  SpecScenario is the crawl of one fixed site,          *)
(* SpecRateLimiter the RateLimiter on its own with concurrent callers,     *)
(* SpecCli one run of the command line interface (src/src/cli.ts),         *)
(* SpecPage one processPageInternal call with its timers and requests,     *)
(* SpecFiles the file writers of concurrent visits, and SpecPool the       *)
(* ThreadPool (src/src/classes/thread.ts) with its workers.                *)
(***************************************************************************)
EXTENDS Integers, Sequences, FiniteSets, TLC

\* ------------------------------------------------------------------ bounds
MaxDepthCfg == 2
MaxPagesCfg == 3
MaxCacheCfg == 4
SignalDepthCfg == 1
SignalPagesCfg == 2
LlmDepthCfg == 1
LlmPagesCfg == 2
DeepCacheCfg == 6

\* ------------------------------------------------------- program constants
batchSize == 3
LaunchRetries == 5

VARIABLES
  cfg,            \* constructor options: maxDepth, maxConcurrentPages, cacheMax;
                  \* signal: whether SIGINT/SIGTERM may arrive in this run
  rootInput,      \* the string given to scrapeWebsite
  mainPc,         \* position of scrapeWebsite
  mainError,      \* message scrapeWebsite rejected with
  launchAttempt,  \* attempt counter of initialize
  dirCreated,     \* fs.mkdir(outputDir) has run
  browser,        \* "none" | "up"
  baseUrl,        \* this.baseUrl (<<>> before it is set)
  processedUrls,  \* this.processedUrls
  resultPromises, \* this.resultPromises: url -> visit that computes it
  results,        \* this.results, least recently used first
  semFree,        \* free tokens of this.semaphore
  semWaiting,     \* FIFO queue of this.semaphore
  pagesOpen,      \* pages created by browser.newPage and not closed
  pagePool,       \* this.pagePool.length
  diskContent,    \* outputDir: route directory -> text of its content_* and
                  \* processed_* file (<<>>: no such file)
  isShuttingDown, \* this.isShuttingDown
  sdPc,           \* position of handleShutdown
  visits,         \* chain -> state of that processSinglePage call
  returned,       \* what scrapeWebsite returned (<<>> before)
  everClaimed,    \* history: urls ever added to processedUrls
  navCount,       \* history: url -> number of page.goto calls
  navFailed,      \* history: urls whose own page.goto / link extraction threw
  report,         \* scraping-report.json as saveScrapingReport built it (<<>> before)
  prior,          \* history: what the previous scrapeWebsite call returned (<<>>: none)
  rl,             \* a RateLimiter with its callers and the clock
  cli,            \* a run of the command line interface
  pg,             \* one processPageInternal call, step by step
  saves,          \* concurrent saveToFile calls on one output directory tree
  pool            \* a ThreadPool with its workers

\* the variables the crawl actions below leave alone
aux == <<report, prior, rl, cli, pg, saves, pool>>

vars == <<aux, cfg, rootInput, mainPc, mainError, launchAttempt, dirCreated, browser,
          baseUrl, processedUrls, resultPromises, results, semFree, semWaiting,
          pagesOpen, pagePool, diskContent, isShuttingDown, sdPc, visits,
          returned, everClaimed, navCount, navFailed>>

Min(a, b) == IF a < b THEN a ELSE b

\* ---------------------------------------------------------------- URLs
\* A URL string, by its parts.  scheme "" is a string without a scheme
\* ("example.com/a"), which new URL() rejects.  slash is a trailing "/".
Url(scheme, www, domain, name, ext, slash) ==
  [scheme |-> scheme, www |-> www, domain |-> domain,
   name |-> name, ext |-> ext, slash |-> slash]

\* new URL(s): <<>> when it throws, else <<parsed>>; the serialized href of
\* an empty path always carries "/".
URLParse(s) ==
  IF s.scheme = "" THEN <<>>
  ELSE <<[s EXCEPT !.slash = IF s.name = "" THEN TRUE ELSE s.slash]>>

isValidUrl_NoCheck(url) == TRUE

isValidUrl(url) == URLParse(url) # <<>>

\* new URL(u).hostname and .host (the model has no ports)
Hostname(u) == <<u.www, u.domain>>

\* getDomain of isSameOrigin: hostname with a leading "www." removed
getDomain(u) == u.domain

isSameOrigin_Always(url1, url2) == TRUE

isSameOrigin(url1, url2) ==
  /\ URLParse(url1) # <<>>
  /\ URLParse(url2) # <<>>
  /\ getDomain(URLParse(url1)[1]) = getDomain(URLParse(url2)[1])

NonTextualExt == {"jpg", "jpeg", "png", "gif", "svg", "pdf", "doc", "docx",
                  "xls", "xlsx", "zip", "rar"}

\* the pattern ends in $: a pathname with a trailing "/" does not match
isNonTextualFile(u) == u.ext \in NonTextualExt /\ ~u.slash

\* normalizeUrl for an absolute href: <<>> for null
normalizeUrl(url) ==
  IF URLParse(url) = <<>> THEN <<>>
  ELSE LET h  == URLParse(url)[1]
           s1 == [h EXCEPT !.slash = FALSE]
           s2 == [s1 EXCEPT !.scheme = IF s1.scheme = "http" THEN "https" ELSE s1.scheme]
           s3 == [s2 EXCEPT !.www = IF s2.scheme = "https" THEN TRUE ELSE s2.www]
       IN <<s3>>

\* new URL(url).origin
Origin(url) == [URLParse(url)[1] EXCEPT !.name = "", !.ext = "", !.slash = FALSE]

RouteExt == {"html", "htm", "php", "asp", "aspx", "jsp"}

generateRoutePath(u) ==
  IF u.name = "" THEN "root"
  ELSE IF u.ext = "" \/ u.ext \in RouteExt THEN u.name
  ELSE u.name \o "-" \o u.ext

\* ---------------------------------------------------------------- the site
\* What the crawled server answers: the hrefs of the anchors of each page.
Ex(name)  == Url("https", FALSE, "example.com", name, "", FALSE)

\* the site of the scenario: the root page links to /a, to other.com/b and
\* to /a again
ScenarioLinks(u) ==
  IF u.domain = "example.com" /\ u.name = "" THEN
    << Ex("a"), Url("https", FALSE, "other.com", "b", "", FALSE), Ex("a") >>
  ELSE << >>

\* the deep site: the root page links to /b, /a, /c and /d, page /b links
\* to /d, and page /d links to /e
DeepLinks(u) ==
  IF u.domain # "example.com" THEN << >>
  ELSE IF u.name = "" THEN << Ex("b"), Ex("a"), Ex("c"), Ex("d") >>
  ELSE IF u.name = "b" THEN << Ex("d") >>
  ELSE IF u.name = "d" THEN << Ex("e") >>
  ELSE << >>

SiteLinks(u) ==
  IF cfg.site = "scenario" THEN ScenarioLinks(u)
  ELSE IF cfg.site = "deep" THEN DeepLinks(u)
  ELSE IF u.domain = "example.com" /\ u.name = "" THEN
    << Ex("a"),
       Url("https", FALSE, "other.com", "b", "", FALSE),
       Url("http", FALSE, "example.com", "a", "", TRUE),
       Ex("b"),
       Url("https", FALSE, "example.com", "pic", "png", FALSE),
       Ex("c"),
       Ex("d") >>
  ELSE IF u.domain = "example.com" /\ u.name = "b" THEN
    << Ex("a"), Url("https", FALSE, "example.com", "pic", "png", TRUE) >>
  ELSE << >>

\* pages whose navigation may fail, and pages whose content may not be scraped
NavMayFail(u) == u.domain = "example.com" /\ u.name = "a"

ContentMayFail(u) ==
  \/ u.domain = "example.com" /\ u.name = "d"
  \/ cfg.site = "bare" /\ u.name = ""

RootInputs == { Url("https", FALSE, "example.com", "", "", FALSE),
                Url("https", FALSE, "example.com", "pic", "png", FALSE),
                Url("", FALSE, "example.com", "", "", FALSE) }

\* ---------------------------------------------------------------- results
\* timestamp is "now" for a value of Date.now(), "NaN" for NaN
ErrorResult(url, msg) ==
  [kind |-> "error", url |-> url, contentPath |-> "", processedContentPath |-> "",
   error |-> msg, timestamp |-> "now"]

OkResult(url, contentPath, processedContentPath) ==
  [kind |-> "ok", url |-> url, contentPath |-> contentPath,
   processedContentPath |-> processedContentPath, error |-> "", timestamp |-> "now"]

UndefinedResult(url) ==
  [kind |-> "undefined", url |-> url, contentPath |-> "", processedContentPath |-> "",
   error |-> "", timestamp |-> "now"]

createErrorResult(url, msg) == ErrorResult(url, msg)

\* ---------------------------------------------------------------- LRU cache
RECURSIVE LruWithout(_, _)
LruWithout(rs, k) ==
  IF rs = <<>> THEN <<>>
  ELSE IF Head(rs).k = k THEN LruWithout(Tail(rs), k)
  ELSE <<Head(rs)>> \o LruWithout(Tail(rs), k)

LruKeys(rs) == {rs[i].k : i \in 1..Len(rs)}

LruHas(rs, k) == k \in LruKeys(rs)

LruVal(rs, k) ==
  IF LruHas(rs, k) THEN (CHOOSE e \in {rs[i] : i \in 1..Len(rs)} : e.k = k).v
  ELSE UndefinedResult(k)

\* get() moves the entry to the most recently used end
LruTouch(rs, k) ==
  IF LruHas(rs, k) THEN Append(LruWithout(rs, k), [k |-> k, v |-> LruVal(rs, k)])
  ELSE rs

\* set(): set(k, undefined) deletes; a new key beyond max evicts the oldest
LruSet(rs, k, v, max) ==
  IF v.kind = "undefined" THEN LruWithout(rs, k)
  ELSE LET put == Append(LruWithout(rs, k), [k |-> k, v |-> v])
       IN IF Len(put) > max THEN Tail(put) ELSE put

\* new Map(this.results.entries())
LruEntries(rs) == {<<rs[i].k, rs[i].v>> : i \in 1..Len(rs)}

\* saveScrapingReport: the report object it builds before it writes the file
saveScrapingReport(urls, rs) ==
  [totalUrls      |-> Cardinality(urls),
   successfulUrls |-> Cardinality({i \in 1..Len(rs) : rs[i].v.error = ""}),
   failedUrls     |-> {rs[i].k : i \in {j \in 1..Len(rs) : rs[j].v.error # ""}}]

\* ---------------------------------------------------------------- page content
\* A text is a sequence of words, <<>> the empty string.  "xxx" stands for a
\* match of RESTRICTED_PATTERNS.CONTENT, " " for white space, "w" for a word.
\* !text?.trim()
isBlank(text) == \A i \in 1..Len(text) : text[i] = " "

\* ContentFilter.filterText: the patterns carry no g flag, so replace()
\* turns the first match into a space and leaves the later ones
RECURSIVE filterText(_)
filterText(text) ==
  IF text = <<>> THEN <<>>
  ELSE IF Head(text) = "xxx" THEN <<" ">> \o Tail(text)
  ELSE <<Head(text)>> \o filterText(Tail(text))

\* filteredTexts[0] of scrape(page.url()): the first text element of the
\* page, passed through filterText once.  Page a starts with "xxx xxx w",
\* page c with "xxx", every other page with a word; the root page of the
\* bare site has no text element.
PageText(u) ==
  IF cfg.site = "bare" /\ u.name = "" THEN <<>>
  ELSE IF u.name = "a" THEN filterText(<<"xxx", "xxx", "w">>)
  ELSE IF u.name = "c" THEN filterText(<<"xxx">>)
  ELSE filterText(<<"w">>)

\* what the LLM collaborator does in a run: it answers, it fails with a
\* quota / 429 error on every call, or it fails with another error
LlmBehaviours == {"answer", "quota", "error"}

\* processWithLLM: blank content skips the LLM; an answer the validator
\* accepts gives processedResponse.reason ?? filteredContent, where reason
\* is undefined for a valid answer, and a rejected answer gives
\* filteredContent; a quota error gives filteredContent; any other error
\* reaches the outer catch, which returns the empty string
\* the text the LLM generates from the prompt built on filteredContent: a
\* summary of the words, which names the restricted term where one was
\* blanked
AiText(filteredContent) ==
  IF \E i \in 1..Len(filteredContent) : filteredContent[i] = " "
  THEN <<"ai", "xxx">> \o filteredContent
  ELSE <<"ai">> \o filteredContent

validateAIResponse_ReasonIsText(content) == [isValid |-> TRUE, reason |-> <<content>>]

\* ContentValidator.validateAIResponse: reason is <<>> for undefined, else
\* <<the reason>>; a text with a suspicious pattern is flagged
validateAIResponse(content) ==
  IF isBlank(content) THEN [isValid |-> FALSE, reason |-> << <<"Empty content">> >>]
  ELSE IF \E i \in 1..Len(content) : content[i] = "xxx"
       THEN [isValid |-> FALSE, reason |-> << <<"Content flagged">> >>]
       ELSE [isValid |-> TRUE, reason |-> <<>>]

processWithLLM(content, llm) ==
  IF isBlank(content) THEN <<>>
  ELSE IF llm = "error" THEN <<>>
  ELSE IF llm = "quota" THEN filterText(content)
  ELSE LET filteredContent   == filterText(content)
           processedResponse == validateAIResponse(AiText(filteredContent))
       IN IF processedResponse.isValid /\ processedResponse.reason # <<>>
          THEN processedResponse.reason[1]
          ELSE filteredContent

NoFiles == [content |-> <<>>, processed |-> <<>>]

FilesOf(disk, dir) == IF dir \in DOMAIN disk THEN disk[dir] ELSE NoFiles

\* path.join(dirPath, `${type}_${timestamp}.txt`), relative to outputDir
FilePath(dir, type) == dir \o "/" \o type \o "_"

\* saveToFile: nothing for empty content; the path of a file of that type
\* already in the directory; else a new file
saveToFile(disk, content, type, url) ==
  LET dir == generateRoutePath(url)
      old == FilesOf(disk, dir)
  IN IF content = <<>> THEN [path |-> "", disk |-> disk]
     ELSE IF old[type] # <<>> THEN [path |-> FilePath(dir, type), disk |-> disk]
     ELSE [path |-> FilePath(dir, type),
           disk |-> (dir :> [old EXCEPT ![type] = content]) @@ disk]

\* processPageContent when the text was scraped
processPageContent(url, disk, llm) ==
  LET content          == PageText(url)
      saved            == saveToFile(disk, content, "content", url)
      processedContent == processWithLLM(content, llm)
      savedProcessed   == saveToFile(saved.disk, processedContent, "processed", url)
  IN [res  |-> OkResult(url, saved.path, savedProcessed.path),
      disk |-> savedProcessed.disk]

\* files.some(file => file.startsWith('content_')) in processSinglePage
hasContentFile(disk, url) == FilesOf(disk, generateRoutePath(url)).content # <<>>

\* Number(name.split('_')[1].split('.')[0]) for the name of a content_ file:
\* saveToFile names it content_<ISO time with ':' and '.' turned into '-'>.txt,
\* and Number("2024-05-01T10-20-30-123Z") is NaN
fileTimestamp(name) == "NaN"

\* existingResult of processSinglePage: path.join(dirPath, '') is dirPath
existingResult(url, disk) ==
  LET dir == generateRoutePath(url)
  IN [OkResult(url, FilePath(dir, "content"),
               IF FilesOf(disk, dir).processed # <<>>
               THEN FilePath(dir, "processed") ELSE dir)
        EXCEPT !.timestamp = fileTimestamp(FilePath(dir, "content"))]

\* ---------------------------------------------------------------- links
RECURSIVE Dedupe(_)
Dedupe(q) ==
  IF q = <<>> THEN <<>>
  ELSE LET r == Dedupe(SubSeq(q, 1, Len(q) - 1))
           x == q[Len(q)]
       IN IF x \in {r[i] : i \in 1..Len(r)} THEN r ELSE Append(r, x)

RECURSIVE KeepLinks(_, _, _)
KeepLinks(q, base, claimed) ==
  IF q = <<>> THEN <<>>
  ELSE LET x    == Head(q)
           rest == KeepLinks(Tail(q), base, claimed)
       IN IF /\ isSameOrigin(x, base)
             /\ x \notin claimed
             /\ ~isNonTextualFile(x)
             /\ normalizeUrl(x) # <<>>
          THEN <<normalizeUrl(x)[1]>> \o rest
          ELSE rest

\* extractValidLinks, for the page at pageUrl, read when the evaluate resolves
extractValidLinks(pageUrl, base, claimed) ==
  Dedupe(KeepLinks(Dedupe(SiteLinks(pageUrl)), base, claimed))

\* ---------------------------------------------------------------- visits
depthExceeded_OffByOne(depth, maxDepth) == depth > maxDepth + 1

\* the depth test of processSinglePage
depthExceeded(depth, maxDepth) == depth > maxDepth

NoOut(url) == [kind |-> "none", res |-> UndefinedResult(url)]

Settled(v, kind, res) == [v EXCEPT !.pc = "done", !.out = [kind |-> kind, res |-> res]]

\* processSinglePage up to its first await
NewVisit(url, depth) ==
  LET v == [url |-> url, depth |-> depth, pc |-> "disk", owner |-> <<>>,
            links |-> <<>>, next |-> 1, batch |-> {},
            pres |-> UndefinedResult(url), out |-> NoOut(url),
            token |-> FALSE, slot |-> FALSE, nav |-> FALSE, pageOpen |-> FALSE,
            sdAtCall |-> isShuttingDown]
  IN IF isShuttingDown THEN Settled(v, "ok", createErrorResult(url, "Scraper shutdown"))
     ELSE IF depthExceeded(depth, cfg.maxDepth)
          THEN Settled(v, "ok", createErrorResult(url, "Max depth reached"))
          ELSE v

\* one batch of the fan-out loop of processPage: links[from .. from+batchSize-1]
SpawnBatch(vs, c, links, from) ==
  LET idx  == {j \in from..Min(from + batchSize - 1, Len(links)) :
                 links[j] \notin processedUrls}
      kids == {Append(c, links[j]) : j \in idx}
  IN [x \in DOMAIN vs \cup kids |->
        IF x \in kids THEN NewVisit(x[Len(x)], Len(x) - 1)
        ELSE IF x = c THEN [vs[x] EXCEPT !.batch = kids, !.next = from + batchSize]
        ELSE vs[x]]

\* the promise of processPageInternal of visit c settles: c itself always
\* resolves (its catch turns a rejection into an error result); the calls
\* that returned resultPromises.get(url) settle like the promise
SettleOwner(vs, c, kind, res) ==
  [x \in DOMAIN vs |->
     IF x = c THEN Settled(vs[x], "ok", res)
     ELSE IF vs[x].pc = "attached" /\ vs[x].owner = c THEN Settled(vs[x], kind, res)
     ELSE vs[x]]

\* ---------------------------------------------------------------- semaphore
\* n calls of Sema.release: each wakes the first waiter, or frees a token
SemRelease(n) ==
  LET k == Min(n, Len(semWaiting))
  IN [free    |-> semFree + n - k,
      waiting |-> SubSeq(semWaiting, k + 1, Len(semWaiting)),
      granted |-> {semWaiting[i] : i \in 1..k}]

Grant(vs, g) ==
  [x \in DOMAIN vs |-> IF x \in g THEN [vs[x] EXCEPT !.pc = "semgranted"] ELSE vs[x]]

WithoutKey(f, k) == [x \in DOMAIN f \ {k} |-> f[x]]

ClosePages(vs) == [x \in DOMAIN vs |-> [vs[x] EXCEPT !.pageOpen = FALSE]]

Alive == sdPc # "exited"

Running(c) == Alive /\ c \in DOMAIN visits

\* "await this.browser.close()" of cleanup() is in flight: this.browser is
\* still set, and the browser no longer opens pages
BrowserClosing == mainPc = "closing" \/ sdPc = "closing"

\* ---------------------------------------------------------------- scrapeWebsite
RootChain == <<rootInput>>

\* The runs explored: every combination of the options, without a signal
\* and with an answering LLM; with a signal, and with a failing LLM, for the
\* smaller options.
Configs ==
  {k \in [maxDepth : 0..MaxDepthCfg,
          maxConcurrentPages : 1..MaxPagesCfg,
          cacheMax : {1, MaxCacheCfg, DeepCacheCfg},
          signal : BOOLEAN,
          llm : LlmBehaviours,
          site : {"full", "bare", "deep"}] :
     /\ k.signal => /\ k.maxDepth <= SignalDepthCfg
                    /\ k.maxConcurrentPages <= SignalPagesCfg
                    /\ k.cacheMax = MaxCacheCfg
                    /\ k.llm = "answer"
                    /\ k.site = "full"
     /\ k.site = "bare" => /\ k.maxDepth <= LlmDepthCfg
                           /\ k.maxConcurrentPages <= LlmPagesCfg
                           /\ k.llm = "answer"
     /\ (k.site = "deep") = (k.cacheMax = DeepCacheCfg)
     /\ k.site = "deep" => /\ k.maxDepth = MaxDepthCfg
                           /\ k.maxConcurrentPages = MaxPagesCfg
                           /\ k.llm = "answer"
     /\ k.llm # "answer" => /\ k.maxDepth <= LlmDepthCfg
                            /\ k.maxConcurrentPages <= LlmPagesCfg
                            /\ k.cacheMax = MaxCacheCfg}

Init ==
  /\ cfg \in Configs
  /\ rootInput \in RootInputs
  /\ mainPc = "start"
  /\ mainError = ""
  /\ launchAttempt = 1
  /\ dirCreated = FALSE
  /\ browser = "none"
  /\ baseUrl = <<>>
  /\ processedUrls = {}
  /\ resultPromises = <<>>
  /\ results = <<>>
  /\ semFree = cfg.maxConcurrentPages
  /\ semWaiting = <<>>
  /\ pagesOpen = 0
  /\ pagePool = 0
  /\ diskContent = <<>>
  /\ isShuttingDown = FALSE
  /\ sdPc = "idle"
  /\ visits = <<>>
  /\ returned = <<>>
  /\ everClaimed = {}
  /\ navCount = <<>>
  /\ navFailed = {}
  /\ report = <<>>
  /\ prior = <<>>
  /\ rl = <<>>
  /\ cli = <<>>
  /\ pg = <<>>
  /\ saves = <<>>
  /\ pool = <<>>

\* scrapeWebsite up to "await this.initialize()"
ScrapeStart ==
  /\ Alive /\ mainPc = "start"
  /\ IF ~isValidUrl(rootInput)
     THEN /\ mainPc' = "rejected"
          /\ mainError' = "Invalid URL provided"
          /\ UNCHANGED baseUrl
     ELSE IF URLParse(rootInput) = <<>>
     THEN /\ mainPc' = "rejected"
          /\ mainError' = "TypeError: Invalid URL"
          /\ UNCHANGED baseUrl
     ELSE /\ mainPc' = "init"
          /\ baseUrl' = <<Origin(rootInput)>>
          /\ UNCHANGED mainError
  /\ UNCHANGED <<aux, cfg, rootInput, launchAttempt, dirCreated, browser, processedUrls,
                 resultPromises, results, semFree, semWaiting, pagesOpen, pagePool,
                 diskContent, isShuttingDown, sdPc, visits, returned, everClaimed,
                 navCount, navFailed>>

\* initialize: the loop "for (attempt = 1; attempt <= retries; attempt++)"
\* goes round again after a failed attempt
moreAttempts_OneMore(attempt) == attempt <= LaunchRetries
moreAttempts(attempt) == attempt < LaunchRetries

\* initialize: mkdir, a launch attempt that succeeds; then
\* contentFilter.initialize() and the call processSinglePage(url, 0)
LaunchOk ==
  /\ Alive /\ mainPc = "init"
  /\ dirCreated' = TRUE
  /\ browser' = "up"
  /\ mainPc' = "crawl"
  /\ visits' = (RootChain :> NewVisit(rootInput, 0))
  /\ UNCHANGED <<aux, cfg, rootInput, mainError, launchAttempt, baseUrl, processedUrls,
                 resultPromises, results, semFree, semWaiting, pagesOpen, pagePool,
                 diskContent, isShuttingDown, sdPc, returned, everClaimed,
                 navCount, navFailed>>

\* initialize: a launch attempt that fails; its catch runs cleanup(), and the
\* last failure makes initialize, and with it scrapeWebsite, throw
LaunchFail ==
  /\ Alive /\ mainPc = "init"
  /\ dirCreated' = TRUE
  /\ browser' = "none"
  /\ pagePool' = 0
  /\ processedUrls' = {}
  /\ resultPromises' = <<>>
  /\ IF moreAttempts(launchAttempt)
     THEN /\ launchAttempt' = launchAttempt + 1
          /\ UNCHANGED <<mainPc, mainError>>
     ELSE /\ mainPc' = "rejected"
          /\ mainError' = "Failed to launch browser"
          /\ UNCHANGED launchAttempt
  /\ UNCHANGED <<aux, cfg, rootInput, baseUrl, results, semFree, semWaiting, pagesOpen,
                 diskContent, isShuttingDown, sdPc, visits, returned, everClaimed,
                 navCount, navFailed>>

\* "await this.processSinglePage(url, 0)" resumes: the returned map is built
\* and the finally block starts cleanup(), which awaits browser.close()
RootSettled ==
  /\ Alive /\ mainPc = "crawl"
  /\ visits[RootChain].pc = "done"
  /\ returned' = <<[map       |-> LruEntries(results),
                    claimed   |-> everClaimed,
                    attempted |-> {visits[c].url : c \in DOMAIN visits}]>>
  /\ mainPc' = "closing"
  /\ UNCHANGED <<aux, cfg, rootInput, mainError, launchAttempt, dirCreated, browser,
                 baseUrl, processedUrls, resultPromises, results, semFree,
                 semWaiting, pagesOpen, pagePool, diskContent, isShuttingDown,
                 sdPc, visits, everClaimed, navCount, navFailed>>

\* cleanup() after browser.close(): the browser and its pages are gone, the
\* pool and the sets are cleared, and scrapeWebsite returns
CleanupDone ==
  /\ Alive /\ mainPc = "closing"
  /\ browser' = "none"
  /\ pagesOpen' = 0
  /\ pagePool' = 0
  /\ processedUrls' = {}
  /\ resultPromises' = <<>>
  /\ visits' = ClosePages(visits)
  /\ mainPc' = "returned"
  /\ UNCHANGED <<aux, cfg, rootInput, mainError, launchAttempt, dirCreated, baseUrl,
                 results, semFree, semWaiting, diskContent, isShuttingDown, sdPc,
                 returned, everClaimed, navCount, navFailed>>

\* scrapeWebsite is called a second time with the same root URL and the same
\* outputDir, once the first call has returned and none of its visits is
\* left: on the same WebScraper, or on a new one in a new process
ScrapeAgain ==
  /\ Alive /\ ~isShuttingDown
  /\ mainPc = "returned" /\ prior = <<>>
  /\ \A c \in DOMAIN visits : visits[c].pc = "done"
  /\ prior' = returned
  /\ \E fresh \in BOOLEAN :
       IF fresh
       THEN /\ results' = <<>>
            /\ semFree' = cfg.maxConcurrentPages
            /\ semWaiting' = <<>>
       ELSE UNCHANGED <<results, semFree, semWaiting>>
  /\ mainPc' = "start"
  /\ launchAttempt' = 1
  /\ returned' = <<>>
  /\ visits' = <<>>
  /\ everClaimed' = {}
  /\ navCount' = <<>>
  /\ navFailed' = {}
  /\ UNCHANGED <<report, rl, cli, pg, saves, pool, cfg, rootInput, mainError, dirCreated, browser,
                 baseUrl, processedUrls, resultPromises, pagesOpen, pagePool,
                 diskContent, isShuttingDown, sdPc>>

\* ---------------------------------------------------------------- shutdown
\* handleShutdown on SIGINT/SIGTERM: the flag is set and cleanup() starts
Signal ==
  /\ Alive /\ ~isShuttingDown
  /\ cfg.signal
  /\ isShuttingDown' = TRUE
  /\ sdPc' = "closing"
  /\ UNCHANGED <<aux, cfg, rootInput, mainPc, mainError, launchAttempt, dirCreated,
                 browser, baseUrl, processedUrls, resultPromises, results, semFree,
                 semWaiting, pagesOpen, pagePool, diskContent, visits, returned,
                 everClaimed, navCount, navFailed>>

\* cleanup() of handleShutdown after browser.close(), and saveScrapingReport
\* up to "await fs.writeFile(...)"
ShutdownCleanup ==
  /\ sdPc = "closing"
  /\ browser' = "none"
  /\ pagesOpen' = 0
  /\ pagePool' = 0
  /\ processedUrls' = {}
  /\ resultPromises' = <<>>
  /\ visits' = ClosePages(visits)
  /\ report' = <<saveScrapingReport(processedUrls', results)>>
  /\ sdPc' = "report"
  /\ UNCHANGED <<prior, rl, cli, pg, saves, pool, cfg, rootInput, mainPc, mainError, launchAttempt, dirCreated,
                 baseUrl, results, semFree, semWaiting, diskContent, isShuttingDown,
                 returned, everClaimed, navCount, navFailed>>

\* the report file is written, then process.exit(0)
ShutdownExit ==
  /\ sdPc = "report"
  /\ sdPc' = "exited"
  /\ UNCHANGED <<aux, cfg, rootInput, mainPc, mainError, launchAttempt, dirCreated,
                 browser, baseUrl, processedUrls, resultPromises, results, semFree,
                 semWaiting, pagesOpen, pagePool, diskContent, isShuttingDown,
                 visits, returned, everClaimed, navCount, navFailed>>

\* ---------------------------------------------------------------- processSinglePage
\* The directory check resolves (fs.access / fs.readdir), and the code runs on
\* to the next await: an existing content_* file, a cached result, a pending
\* computation to return, or a new processPageInternal, which runs up to
\* "await this.rateLimiter.acquire()".
DiskCheck(c) ==
  /\ Running(c) /\ visits[c].pc = "disk"
  /\ LET v == visits[c]
         u == v.url
     IN IF hasContentFile(diskContent, u)
        THEN /\ results' = LruSet(results, u, existingResult(u, diskContent), cfg.cacheMax)
             /\ visits' = [visits EXCEPT ![c] =
                             Settled(v, "ok", existingResult(u, diskContent))]
             /\ UNCHANGED resultPromises
        ELSE IF LruHas(results, u)
        THEN /\ results' = LruTouch(results, u)
             /\ visits' = [visits EXCEPT ![c] = Settled(v, "ok", LruVal(results, u))]
             /\ UNCHANGED resultPromises
        ELSE IF u \in DOMAIN resultPromises
        THEN /\ visits' = [visits EXCEPT ![c].pc = "attached",
                                         ![c].owner = resultPromises[u]]
             /\ UNCHANGED <<results, resultPromises>>
        ELSE IF isShuttingDown
        THEN /\ results' = LruSet(results, u,
                                  createErrorResult(u, "Scraper is shutting down"),
                                  cfg.cacheMax)
             /\ visits' = [visits EXCEPT ![c] =
                             Settled(v, "ok", createErrorResult(u, "Scraper is shutting down"))]
             /\ UNCHANGED resultPromises
        ELSE /\ resultPromises' = (u :> c) @@ resultPromises
             /\ visits' = [visits EXCEPT ![c].pc = "rate"]
             /\ UNCHANGED results
  /\ UNCHANGED <<aux, cfg, rootInput, mainPc, mainError, launchAttempt, dirCreated,
                 browser, baseUrl, processedUrls, semFree, semWaiting, pagesOpen,
                 pagePool, diskContent, isShuttingDown, sdPc, returned, everClaimed,
                 navCount, navFailed>>

\* ---------------------------------------------------------------- processPageInternal
\* rateLimiter.acquire() resolves; the processedUrls test, the timer, and
\* semaphore.acquire(), which takes a free token or queues the caller
RateAcquired(c) ==
  /\ Running(c) /\ visits[c].pc = "rate"
  /\ LET u == visits[c].url
         w == [visits EXCEPT ![c].token = TRUE]
     IN IF u \in processedUrls
        THEN /\ results' = LruSet(LruTouch(results, u), u, LruVal(results, u), cfg.cacheMax)
             /\ resultPromises' = WithoutKey(resultPromises, u)
             /\ visits' = SettleOwner(w, c, "ok", LruVal(results, u))
             /\ UNCHANGED <<semFree, semWaiting>>
        ELSE IF semFree > 0
        THEN /\ semFree' = semFree - 1
             /\ visits' = [w EXCEPT ![c].pc = "semgranted"]
             /\ UNCHANGED <<semWaiting, results, resultPromises>>
        ELSE /\ semWaiting' = Append(semWaiting, c)
             /\ visits' = [w EXCEPT ![c].pc = "sem"]
             /\ UNCHANGED <<semFree, results, resultPromises>>
  /\ UNCHANGED <<aux, cfg, rootInput, mainPc, mainError, launchAttempt, dirCreated,
                 browser, baseUrl, processedUrls, pagesOpen, pagePool, diskContent,
                 isShuttingDown, sdPc, returned, everClaimed, navCount, navFailed>>

\* "await this.semaphore.acquire()" resumes: the second processedUrls test,
\* the claim, and the call of getPage
AfterSem(c) ==
  /\ Running(c) /\ visits[c].pc = "semgranted"
  /\ LET u == visits[c].url
         w == [visits EXCEPT ![c].slot = TRUE]
     IN IF u \in processedUrls
        THEN /\ results' = LruSet(LruTouch(results, u), u, LruVal(results, u), cfg.cacheMax)
             /\ resultPromises' = WithoutKey(resultPromises, u)
             /\ visits' = SettleOwner(w, c, "ok", LruVal(results, u))
             /\ UNCHANGED <<processedUrls, everClaimed>>
        ELSE /\ processedUrls' = processedUrls \cup {u}
             /\ everClaimed' = everClaimed \cup {u}
             /\ visits' = [w EXCEPT ![c].pc = "getpage"]
             /\ UNCHANGED <<results, resultPromises>>
  /\ UNCHANGED <<aux, cfg, rootInput, mainPc, mainError, launchAttempt, dirCreated,
                 browser, baseUrl, semFree, semWaiting, pagesOpen, pagePool,
                 diskContent, isShuttingDown, sdPc, returned, navCount, navFailed>>

\* getPage: ensureBrowser (which launches a browser when there is none) and
\* browser.newPage(); then processPage up to "await page.goto(url)"
GetPage(c) ==
  /\ Running(c) /\ visits[c].pc = "getpage"
  /\ ~BrowserClosing
  /\ browser' = "up"
  /\ dirCreated' = TRUE
  /\ pagesOpen' = pagesOpen + 1
  /\ navCount' = IF visits[c].url \in DOMAIN navCount
                 THEN [navCount EXCEPT ![visits[c].url] = @ + 1]
                 ELSE (visits[c].url :> 1) @@ navCount
  /\ visits' = [visits EXCEPT ![c].pc = "goto", ![c].nav = TRUE, ![c].pageOpen = TRUE]
  /\ UNCHANGED <<aux, cfg, rootInput, mainPc, mainError, launchAttempt, baseUrl,
                 processedUrls, resultPromises, results, semFree, semWaiting,
                 pagePool, diskContent, isShuttingDown, sdPc, returned, everClaimed,
                 navFailed>>

\* getPage threw, because the browser is being closed: the catch of
\* processPageInternal (processedUrls.delete, cleanup(url), throw), then the
\* catch and finally of processSinglePage
GetPageFail(c) ==
  /\ Running(c) /\ visits[c].pc = "getpage"
  /\ BrowserClosing
  /\ LET u   == visits[c].url
         rel == SemRelease(1)
         err == createErrorResult(u, "Browser has been closed")
     IN /\ processedUrls' = processedUrls \ {u}
        /\ semFree' = rel.free
        /\ semWaiting' = rel.waiting
        /\ results' = LruSet(results, u, err, cfg.cacheMax)
        /\ resultPromises' = WithoutKey(resultPromises, u)
        /\ visits' = Grant(SettleOwner(visits, c, "rejected", err), rel.granted)
  /\ UNCHANGED <<aux, cfg, rootInput, mainPc, mainError, launchAttempt, dirCreated,
                 browser, baseUrl, pagesOpen, pagePool, diskContent, isShuttingDown,
                 sdPc, returned, everClaimed, navCount, navFailed>>

\* ---------------------------------------------------------------- processPage
\* page.goto resolved and extractValidLinks read the anchors
GotoOk(c) ==
  /\ Running(c) /\ visits[c].pc = "goto"
  /\ visits[c].pageOpen
  /\ visits' = [visits EXCEPT
                  ![c].pc = "content",
                  ![c].links = extractValidLinks(visits[c].url, baseUrl[1], processedUrls)]
  /\ UNCHANGED <<aux, cfg, rootInput, mainPc, mainError, launchAttempt, dirCreated,
                 browser, baseUrl, processedUrls, resultPromises, results, semFree,
                 semWaiting, pagesOpen, pagePool, diskContent, isShuttingDown, sdPc,
                 returned, everClaimed, navCount, navFailed>>

\* releasePage(page): park the page in the pool, or close it
ReleasePage(c) ==
  IF pagePool < cfg.maxConcurrentPages
  THEN /\ pagePool' = pagePool + 1
       /\ UNCHANGED pagesOpen
  ELSE /\ pagesOpen' = pagesOpen - (IF visits[c].pageOpen THEN 1 ELSE 0)
       /\ UNCHANGED pagePool

\* processPage threw msg: the finally of processPageInternal (releasePage,
\* cleanup(url)), its catch (processedUrls.delete, cleanup(url), throw), and
\* the catch and finally of processSinglePage
FailPage(c, msg) ==
  LET u   == visits[c].url
      rel == SemRelease(2)
  IN /\ ReleasePage(c)
     /\ processedUrls' = processedUrls \ {u}
     /\ semFree' = rel.free
     /\ semWaiting' = rel.waiting
     /\ results' = LruSet(results, u, createErrorResult(u, msg), cfg.cacheMax)
     /\ resultPromises' = WithoutKey(resultPromises, u)
     /\ visits' = Grant([SettleOwner(visits, c, "rejected", createErrorResult(u, msg))
                           EXCEPT ![c].pageOpen = FALSE],
                        rel.granted)

\* page.goto, or the link extraction after it, threw
GotoFail(c) ==
  /\ Running(c) /\ visits[c].pc = "goto"
  /\ NavMayFail(visits[c].url) \/ ~visits[c].pageOpen
  /\ FailPage(c, "Navigation failed")
  /\ navFailed' = navFailed \cup {visits[c].url}
  /\ UNCHANGED <<aux, cfg, rootInput, mainPc, mainError, launchAttempt, dirCreated,
                 browser, baseUrl, diskContent, isShuttingDown, sdPc, returned,
                 everClaimed, navCount>>

\* processPageContent returned a result with its files written, and the
\* first batch of the fan-out is started
ContentOk(c) ==
  /\ Running(c) /\ visits[c].pc = "content"
  /\ visits[c].pageOpen
  /\ PageText(visits[c].url) # <<>>
  /\ LET done == processPageContent(visits[c].url, diskContent, cfg.llm)
     IN /\ diskContent' = done.disk
        /\ visits' = SpawnBatch([visits EXCEPT ![c].pc = "fanout",
                                               ![c].pres = done.res],
                                c, visits[c].links, 1)
  /\ UNCHANGED <<aux, cfg, rootInput, mainPc, mainError, launchAttempt, dirCreated,
                 browser, baseUrl, processedUrls, resultPromises, results, semFree,
                 semWaiting, pagesOpen, pagePool, isShuttingDown, sdPc, returned,
                 everClaimed, navCount, navFailed>>

\* processPageContent caught an error and returned an error result
ContentFail(c) ==
  /\ Running(c) /\ visits[c].pc = "content"
  /\ ContentMayFail(visits[c].url) \/ ~visits[c].pageOpen
  /\ visits' = SpawnBatch([visits EXCEPT
                             ![c].pc = "fanout",
                             ![c].pres = createErrorResult(visits[c].url,
                                                           "Failed to scrape content")],
                          c, visits[c].links, 1)
  /\ UNCHANGED <<aux, cfg, rootInput, mainPc, mainError, launchAttempt, dirCreated,
                 browser, baseUrl, processedUrls, resultPromises, results, semFree,
                 semWaiting, pagesOpen, pagePool, diskContent, isShuttingDown, sdPc,
                 returned, everClaimed, navCount, navFailed>>

BatchResolved_First(c) == \E k \in visits[c].batch :
                            visits[k].pc = "done" /\ visits[k].out.kind = "ok"
BatchResolved(c) == \A k \in visits[c].batch :
                      visits[k].pc = "done" /\ visits[k].out.kind = "ok"

\* Promise.all of a batch resolved and the pause is over: the next batch
NextBatch(c) ==
  /\ Running(c) /\ visits[c].pc = "fanout"
  /\ BatchResolved(c)
  /\ visits[c].next <= Len(visits[c].links)
  /\ visits' = SpawnBatch(visits, c, visits[c].links, visits[c].next)
  /\ UNCHANGED <<aux, cfg, rootInput, mainPc, mainError, launchAttempt, dirCreated,
                 browser, baseUrl, processedUrls, resultPromises, results, semFree,
                 semWaiting, pagesOpen, pagePool, diskContent, isShuttingDown, sdPc,
                 returned, everClaimed, navCount, navFailed>>

\* the last batch resolved: processPage returns, processPageInternal stores
\* the result, releases the page and the slot, and processSinglePage stores
\* the result again and drops the pending entry
FinishPage(c) ==
  /\ Running(c) /\ visits[c].pc = "fanout"
  /\ BatchResolved(c)
  /\ visits[c].next > Len(visits[c].links)
  /\ LET u   == visits[c].url
         rel == SemRelease(1)
     IN /\ ReleasePage(c)
        /\ semFree' = rel.free
        /\ semWaiting' = rel.waiting
        /\ results' = LruSet(results, u, visits[c].pres, cfg.cacheMax)
        /\ resultPromises' = WithoutKey(resultPromises, u)
        /\ visits' = Grant([SettleOwner(visits, c, "ok", visits[c].pres)
                              EXCEPT ![c].pageOpen = FALSE],
                           rel.granted)
  /\ UNCHANGED <<aux, cfg, rootInput, mainPc, mainError, launchAttempt, dirCreated,
                 browser, baseUrl, processedUrls, diskContent, isShuttingDown, sdPc,
                 returned, everClaimed, navCount, navFailed>>

\* Promise.all of a batch rejected with the rejection of one of its visits
BatchRejected(c) ==
  /\ Running(c) /\ visits[c].pc = "fanout"
  /\ \E k \in visits[c].batch :
       /\ visits[k].pc = "done" /\ visits[k].out.kind = "rejected"
       /\ FailPage(c, visits[k].out.res.error)
  /\ UNCHANGED <<aux, cfg, rootInput, mainPc, mainError, launchAttempt, dirCreated,
                 browser, baseUrl, diskContent, isShuttingDown, sdPc, returned,
                 everClaimed, navCount, navFailed>>

\* ---------------------------------------------------------------- specification
Chains == DOMAIN visits

Next ==
  \/ ScrapeStart
  \/ LaunchOk
  \/ LaunchFail
  \/ RootSettled
  \/ CleanupDone
  \/ ScrapeAgain
  \/ Signal
  \/ ShutdownCleanup
  \/ ShutdownExit
  \/ \E c \in Chains : DiskCheck(c)
  \/ \E c \in Chains : RateAcquired(c)
  \/ \E c \in Chains : AfterSem(c)
  \/ \E c \in Chains : GetPage(c)
  \/ \E c \in Chains : GetPageFail(c)
  \/ \E c \in Chains : GotoOk(c)
  \/ \E c \in Chains : GotoFail(c)
  \/ \E c \in Chains : ContentOk(c)
  \/ \E c \in Chains : ContentFail(c)
  \/ \E c \in Chains : NextBatch(c)
  \/ \E c \in Chains : FinishPage(c)
  \/ \E c \in Chains : BatchRejected(c)

Spec == Init /\ [][Next]_vars

\* ---------------------------------------------------------------- the scenario
\* root https://example.com, maxDepth 1, default cacheOptions, no signal
ScenarioConfigs ==
  [maxDepth : {1},
   maxConcurrentPages : 1..MaxPagesCfg,
   cacheMax : {MaxCacheCfg},
   signal : {FALSE},
   llm : LlmBehaviours,
   site : {"scenario"}]

InitScenario ==
  /\ cfg \in ScenarioConfigs
  /\ rootInput = Url("https", FALSE, "example.com", "", "", FALSE)
  /\ mainPc = "start"
  /\ mainError = ""
  /\ launchAttempt = 1
  /\ dirCreated = FALSE
  /\ browser = "none"
  /\ baseUrl = <<>>
  /\ processedUrls = {}
  /\ resultPromises = <<>>
  /\ results = <<>>
  /\ semFree = cfg.maxConcurrentPages
  /\ semWaiting = <<>>
  /\ pagesOpen = 0
  /\ pagePool = 0
  /\ diskContent = <<>>
  /\ isShuttingDown = FALSE
  /\ sdPc = "idle"
  /\ visits = <<>>
  /\ returned = <<>>
  /\ everClaimed = {}
  /\ navCount = <<>>
  /\ navFailed = {}
  /\ report = <<>>
  /\ prior = <<>>
  /\ rl = <<>>
  /\ cli = <<>>
  /\ pg = <<>>
  /\ saves = <<>>
  /\ pool = <<>>

NextScenario ==
  \/ ScrapeStart
  \/ LaunchOk
  \/ LaunchFail
  \/ RootSettled
  \/ CleanupDone
  \/ \E c \in Chains : DiskCheck(c)
  \/ \E c \in Chains : RateAcquired(c)
  \/ \E c \in Chains : AfterSem(c)
  \/ \E c \in Chains : GetPage(c)
  \/ \E c \in Chains : GotoOk(c)
  \/ \E c \in Chains : GotoFail(c)
  \/ \E c \in Chains : ContentOk(c)
  \/ \E c \in Chains : FinishPage(c)

SpecScenario == InitScenario /\ [][NextScenario]_vars

\* ---------------------------------------------------------------- RateLimiter
\* The token bucket on its own, with concurrent acquire() callers and the
\* clock (Date.now(), in ms).  rl = [maxTokens, tokens, lastRefill, now,
\* pc: caller -> position in acquire, wake: caller -> due time of its timer].
MaxTokensCfg == 2
NumCallers == 3
MaxClockTicks == 4

\* new RateLimiter(5, 1): one token per second
refillRate == 1

Callers == 1..NumCallers

crawlVars == <<cfg, rootInput, mainPc, mainError, launchAttempt, dirCreated, browser,
               baseUrl, processedUrls, resultPromises, results, semFree, semWaiting,
               pagesOpen, pagePool, diskContent, isShuttingDown, sdPc, visits,
               returned, everClaimed, navCount, navFailed>>

\* a WebScraper on which scrapeWebsite has not been called
NoCrawl ==
  /\ cfg = [maxDepth |-> 0, maxConcurrentPages |-> 1, cacheMax |-> MaxCacheCfg,
            signal |-> FALSE, llm |-> "answer", site |-> "full"]
  /\ rootInput = Url("https", FALSE, "example.com", "", "", FALSE)
  /\ mainPc = "start"
  /\ mainError = ""
  /\ launchAttempt = 1
  /\ dirCreated = FALSE
  /\ browser = "none"
  /\ baseUrl = <<>>
  /\ processedUrls = {}
  /\ resultPromises = <<>>
  /\ results = <<>>
  /\ semFree = cfg.maxConcurrentPages
  /\ semWaiting = <<>>
  /\ pagesOpen = 0
  /\ pagePool = 0
  /\ diskContent = <<>>
  /\ isShuttingDown = FALSE
  /\ sdPc = "idle"
  /\ visits = <<>>
  /\ returned = <<>>
  /\ everClaimed = {}
  /\ navCount = <<>>
  /\ navFailed = {}
  /\ report = <<>>
  /\ prior = <<>>

\* constructor
NewRateLimiter(maxTokens) ==
  [maxTokens |-> maxTokens, tokens |-> maxTokens, lastRefill |-> 0, now |-> 0,
   pc |-> [p \in Callers |-> "idle"], wake |-> [p \in Callers |-> 0]]

refill_NoCap(r) ==
  LET timePassed == r.now - r.lastRefill
      n == (timePassed * refillRate) \div 1000
  IN [r EXCEPT !.tokens = r.tokens + n, !.lastRefill = r.now]

\* refill()
refill(r) ==
  LET timePassed == r.now - r.lastRefill
      n == (timePassed * refillRate) \div 1000
  IN [r EXCEPT !.tokens = Min(r.maxTokens, r.tokens + n), !.lastRefill = r.now]

InitRateLimiter ==
  /\ NoCrawl
  /\ rl \in {NewRateLimiter(m) : m \in 1..MaxTokensCfg}
  /\ cli = <<>>
  /\ pg = <<>>
  /\ saves = <<>>
  /\ pool = <<>>

\* acquire() is called: refill() runs up to the first await
AcquireCall(p) ==
  /\ rl.pc[p] \in {"idle", "done"}
  /\ rl' = [refill(rl) EXCEPT !.pc[p] = "refilled"]
  /\ UNCHANGED <<crawlVars, report, prior, cli, pg, saves, pool>>

\* "await this.refill()" resumes: the test of the balance, then the timer
\* or the decrement
AcquireCheck(p) ==
  /\ rl.pc[p] = "refilled"
  /\ rl' = IF rl.tokens <= 0
           THEN [rl EXCEPT !.pc[p] = "sleeping",
                           !.wake[p] = rl.now + (1000 \div refillRate)]
           ELSE [rl EXCEPT !.tokens = @ - 1, !.pc[p] = "done"]
  /\ UNCHANGED <<crawlVars, report, prior, cli, pg, saves, pool>>

\* the timer fires: the second refill() runs up to its await
AcquireWake(p) ==
  /\ rl.pc[p] = "sleeping"
  /\ rl.now >= rl.wake[p]
  /\ rl' = [refill(rl) EXCEPT !.pc[p] = "woken"]
  /\ UNCHANGED <<crawlVars, report, prior, cli, pg, saves, pool>>

AcquireTake_Loop(p) ==
  /\ rl.pc[p] = "woken"
  /\ rl' = IF rl.tokens <= 0
           THEN [rl EXCEPT !.pc[p] = "sleeping",
                           !.wake[p] = rl.now + (1000 \div refillRate)]
           ELSE [rl EXCEPT !.tokens = @ - 1, !.pc[p] = "done"]
  /\ UNCHANGED <<crawlVars, report, prior, cli, pg, saves, pool>>

\* the second "await this.refill()" resumes: the decrement
AcquireTake(p) ==
  /\ rl.pc[p] = "woken"
  /\ rl' = [rl EXCEPT !.tokens = @ - 1, !.pc[p] = "done"]
  /\ UNCHANGED <<crawlVars, report, prior, cli, pg, saves, pool>>

\* half a second passes
Tick ==
  /\ rl.now < MaxClockTicks * 500
  /\ rl' = [rl EXCEPT !.now = @ + 500]
  /\ UNCHANGED <<crawlVars, report, prior, cli, pg, saves, pool>>

NextRateLimiter ==
  \/ \E p \in Callers : AcquireCall(p)
  \/ \E p \in Callers : AcquireCheck(p)
  \/ \E p \in Callers : AcquireWake(p)
  \/ \E p \in Callers : AcquireTake(p)
  \/ Tick

SpecRateLimiter == InitRateLimiter /\ [][NextRateLimiter]_vars

\* ---------------------------------------------------------------- ScraperCLI
\* One run of src/src/cli.ts.  cli = [args: the command line, url: options.url,
\* pc, attempt: attempt of withRetry, exitCode (-1 while running), stderr: the
\* message on stderr, scraper: a WebScraper was constructed, scraped:
\* scrapeWebsite was called].
ConfigAttempts == 3

\* --url values: the empty string, a string new URL() rejects, a URL
CliUrls == {<<>>,
            <<Url("", FALSE, "example.com", "", "", FALSE)>>,
            <<Url("https", FALSE, "example.com", "", "", FALSE)>>}

\* the command lines explored.  apiKey: --api-key is given; config: no
\* --config, a file that cannot be read, a file with a "url" entry, a file
\* without; memoryLimit and depth: the option strings
CliArgs ==
  [apiKey : BOOLEAN,
   url : CliUrls,
   config : {"none", "unreadable", "url", "nourl"},
   memoryLimit : {"1024", "abc"},
   depth : {"3", "0"}]

\* parseInt on the option strings used: <<>> is NaN
parseInt(str) ==
  IF str = "1024" THEN <<1024>> ELSE IF str = "3" THEN <<3>>
  ELSE IF str = "0" THEN <<0>> ELSE <<>>

\* the url entry of the config file
ConfigUrl == <<Url("https", TRUE, "example.com", "", "", FALSE)>>

\* validateOptions: <<>> when it returns, else the message of the
\* ValidationError it throws
validateOptions_NoUrlCheck(options) ==
  IF options.url = <<>> THEN <<"URL is required">>
  ELSE IF parseInt(options.depth) = <<>> \/ parseInt(options.depth)[1] < 1
  THEN <<"Depth must be a positive number">>
  ELSE <<>>
validateOptions(options) ==
  IF options.url = <<>> THEN <<"URL is required">>
  ELSE IF URLParse(options.url[1]) = <<>> THEN <<"Invalid URL: ", options.url[1]>>
  ELSE IF parseInt(options.depth) = <<>> \/ parseInt(options.depth)[1] < 1
  THEN <<"Depth must be a positive number">>
  ELSE <<>>

\* handleError: the message goes to stderr and the process exits with 1
handleError(c, msg) == [c EXCEPT !.pc = "exited", !.exitCode = 1, !.stderr = msg]

\* run() from validateOptions up to "await this.ensureOutputDirectory(...)"
Validated(c) ==
  IF validateOptions([url |-> c.url, depth |-> c.args.depth]) = <<>>
  THEN [c EXCEPT !.pc = "mkdir"]
  ELSE handleError(c, validateOptions([url |-> c.url, depth |-> c.args.depth]))

InitCli ==
  /\ NoCrawl
  /\ rl = <<>>
  /\ pg = <<>>
  /\ saves = <<>>
  /\ pool = <<>>
  /\ cli \in {[args |-> a, url |-> a.url, pc |-> "start", attempt |-> 1,
                exitCode |-> -1, stderr |-> <<>>, scraper |-> FALSE,
                scraped |-> FALSE] : a \in CliArgs}

\* program.parse, process.setMaxListeners, then the config file or the
\* validation
CliParse ==
  /\ cli.pc = "start"
  /\ cli' = IF ~cli.args.apiKey
            THEN [cli EXCEPT !.pc = "exited", !.exitCode = 1,
                             !.stderr = <<"error: required option ", "--api-key">>]
            ELSE IF parseInt(cli.args.memoryLimit) = <<>>
            THEN handleError(cli, <<"The value of \"n\" is out of range.">>)
            ELSE IF cli.args.config # "none"
            THEN [cli EXCEPT !.pc = "config"]
            ELSE Validated(cli)
  /\ UNCHANGED <<crawlVars, report, prior, rl, pg, saves, pool>>

\* loadConfig returned: Object.assign(options, configOptions), validation
CliConfigLoaded ==
  /\ cli.pc = "config" /\ cli.args.config \in {"url", "nourl"}
  /\ cli' = Validated([cli EXCEPT !.url = IF cli.args.config = "url"
                                          THEN ConfigUrl ELSE @])
  /\ UNCHANGED <<crawlVars, report, prior, rl, pg, saves, pool>>

\* loadConfig threw: withRetry tries again, or throws after the last attempt
CliConfigFailed ==
  /\ cli.pc = "config" /\ cli.args.config = "unreadable"
  /\ cli' = IF cli.attempt = ConfigAttempts
            THEN handleError(cli, <<"Operation config loading failed: ",
                                    "Failed to load config file: ">>)
            ELSE [cli EXCEPT !.attempt = @ + 1]
  /\ UNCHANGED <<crawlVars, report, prior, rl, pg, saves, pool>>

\* ensureOutputDirectory returned: new WebScraper(...), scrapeWebsite(url)
CliScrape ==
  /\ cli.pc = "mkdir"
  /\ cli' = [cli EXCEPT !.pc = "scrape", !.scraper = TRUE, !.scraped = TRUE]
  /\ UNCHANGED <<crawlVars, report, prior, rl, pg, saves, pool>>

\* ensureOutputDirectory threw
CliMkdirFailed ==
  /\ cli.pc = "mkdir"
  /\ cli' = handleError(cli, <<"Failed to create output directory: ">>)
  /\ UNCHANGED <<crawlVars, report, prior, rl, pg, saves, pool>>

\* scrapeWebsite returned: export, summary, and the process ends
CliDone ==
  /\ cli.pc = "scrape"
  /\ cli' = [cli EXCEPT !.pc = "exited", !.exitCode = 0]
  /\ UNCHANGED <<crawlVars, report, prior, rl, pg, saves, pool>>

\* scrapeWebsite, or the export, threw
CliScrapeFailed ==
  /\ cli.pc = "scrape"
  /\ cli' = handleError(cli, <<"Failed to launch browser">>)
  /\ UNCHANGED <<crawlVars, report, prior, rl, pg, saves, pool>>

NextCli ==
  \/ CliParse
  \/ CliConfigLoaded
  \/ CliConfigFailed
  \/ CliScrape
  \/ CliMkdirFailed
  \/ CliDone
  \/ CliScrapeFailed

SpecCli == InitCli /\ [][NextCli]_vars

\* ---------------------------------------------------------------- one page
\* One processPageInternal call on its own (free semaphore, no other visit),
\* followed through processPage, processPageContent, scrapeWithRetry, scrape,
\* processWithLLM and validateAIResponse, with the two processing timers.
\* pg = [url, llm: what the LLM does, pc, attempt: attempt of scrapeWithRetry,
\* retries: retries left in withRetry, acquired: completed rateLimiter.acquire
\* calls, credit: an acquire completed and no request sent since, sent:
\* navigations and LLM requests started, unpaid: those started without an
\* acquire of their own, timer / pageTimer: the timers of processPageInternal
\* and processPage are armed, fired: one of them fired, pageClosed, rejected:
\* scrape returned the policy rejection, releases: semaphore.release calls,
\* disk, pres: result of processPageContent, result: <<stored result>>].
ScrapeRetries == 3
LlmRetries == 3

\* ContentFilter.isRestricted: RESTRICTED_PATTERNS.TLD and .SUBDOMAIN
isRestricted(u) == u.domain \in {"example.xxx", "xxx.example.com"}

PolicyReason == "Domain contains restricted content"

PageUrls == {Ex("a"), Ex("b"), Ex("c"), Ex("d"),
             Url("https", FALSE, "example.xxx", "", "", FALSE)}

NewPage(u, l) ==
  [url |-> u, llm |-> l, pc |-> "rate", attempt |-> 1, retries |-> LlmRetries,
   acquired |-> 0, credit |-> FALSE, sent |-> 0, unpaid |-> 0,
   timer |-> FALSE, pageTimer |-> FALSE, fired |-> FALSE, pageClosed |-> FALSE,
   rejected |-> FALSE, releases |-> 0, disk |-> <<>>,
   pres |-> UndefinedResult(u), result |-> <<>>]

\* "await this.rateLimiter.acquire()" resumed
Acquired(p) == [p EXCEPT !.acquired = @ + 1, !.credit = TRUE]

\* a navigation or an LLM request is started
Sent(p) == [p EXCEPT !.sent = @ + 1, !.credit = FALSE,
                     !.unpaid = IF p.credit THEN @ ELSE @ + 1]

\* processPageContent has its result, and the fan-out starts
ContentDone(p, res, disk) == [p EXCEPT !.pres = res, !.disk = disk, !.pc = "fanout"]

\* processPageInternal settles with res after n calls of cleanup(url), and
\* processSinglePage stores res
PageSettled(p, res, n) ==
  [p EXCEPT !.pc = "done", !.result = <<res>>, !.timer = FALSE, !.pageTimer = FALSE,
            !.releases = @ + n]

InitPage ==
  /\ NoCrawl
  /\ rl = <<>>
  /\ cli = <<>>
  /\ pg \in {NewPage(u, l) : u \in PageUrls, l \in LlmBehaviours}
  /\ saves = <<>>
  /\ pool = <<>>

\* rateLimiter.acquire() resolves: the timer, the slot, the claim, getPage,
\* and processPage up to "await page.goto(url)"
PgRateAcquired ==
  /\ pg.pc = "rate"
  /\ pg' = [Sent(Acquired(pg)) EXCEPT !.pc = "goto", !.timer = TRUE, !.pageTimer = TRUE]
  /\ UNCHANGED <<crawlVars, report, prior, rl, cli, saves, pool>>

\* page.goto resolved; processPageContent waits for the load state
PgGotoOk ==
  /\ pg.pc = "goto" /\ ~pg.pageClosed
  /\ pg' = [pg EXCEPT !.pc = "settle"]
  /\ UNCHANGED <<crawlVars, report, prior, rl, cli, saves, pool>>

\* page.goto threw: finally and catch of processPageInternal, catch of
\* processSinglePage
PgGotoFail ==
  /\ pg.pc = "goto"
  /\ NavMayFail(pg.url) \/ pg.pageClosed
  /\ pg' = PageSettled(pg, createErrorResult(pg.url, "Navigation failed"), 2)
  /\ UNCHANGED <<crawlVars, report, prior, rl, cli, saves, pool>>

\* the waits of processPageContent are over (they throw on a closed page);
\* scrapeWithRetry starts
PgSettled ==
  /\ pg.pc = "settle"
  /\ pg' = IF pg.pageClosed
           THEN ContentDone(pg, createErrorResult(pg.url, "Target closed"), pg.disk)
           ELSE [pg EXCEPT !.pc = "scrape"]
  /\ UNCHANGED <<crawlVars, report, prior, rl, cli, saves, pool>>

\* scrapeWithRetry: rateLimiter.acquire() resolves and scrape(page.url()) is
\* called, which returns at once for a restricted URL and navigates otherwise
PgScrapeAcquired ==
  /\ pg.pc = "scrape"
  /\ pg' = IF isRestricted(pg.url)
           THEN [Acquired(pg) EXCEPT !.pc = "scraping", !.rejected = TRUE]
           ELSE [Sent(Acquired(pg)) EXCEPT !.pc = "scraping"]
  /\ UNCHANGED <<crawlVars, report, prior, rl, cli, saves, pool>>

\* scrape returned.  With texts: the content file, and processWithLLM up to
\* its rateLimiter.acquire().  With { error }: the next attempt, or the
\* throw after the last one, which processPageContent turns into a result
PgScraped ==
  /\ pg.pc = "scraping"
  /\ \E ok \in BOOLEAN :
       /\ ok => ~isRestricted(pg.url)
       /\ ~ok => (isRestricted(pg.url) \/ ContentMayFail(pg.url))
       /\ pg' = IF ok
                THEN IF isBlank(PageText(pg.url))
                     THEN ContentDone(pg, processPageContent(pg.url, pg.disk, pg.llm).res,
                                      processPageContent(pg.url, pg.disk, pg.llm).disk)
                     ELSE [pg EXCEPT !.pc = "llmrate"]
                ELSE IF pg.attempt < ScrapeRetries
                     THEN [pg EXCEPT !.attempt = @ + 1, !.pc = "scrape"]
                     ELSE ContentDone(pg, createErrorResult(pg.url, "Failed to scrape content"),
                                      pg.disk)
  /\ UNCHANGED <<crawlVars, report, prior, rl, cli, saves, pool>>

\* processWithLLM: rateLimiter.acquire() resolves and the summarization
\* request is sent
PgLlmAcquired ==
  /\ pg.pc = "llmrate"
  /\ pg' = [Sent(Acquired(pg)) EXCEPT !.pc = "llm"]
  /\ UNCHANGED <<crawlVars, report, prior, rl, cli, saves, pool>>

\* the LLM answered: validateAIResponse runs up to its safety-check request
PgLlmAnswered ==
  /\ pg.pc = "llm" /\ pg.llm = "answer"
  /\ pg' = [Sent(pg) EXCEPT !.pc = "safety"]
  /\ UNCHANGED <<crawlVars, report, prior, rl, cli, saves, pool>>

\* the request failed with 429: withRetry sends it again, or gives up and
\* processWithLLM falls back to the filtered content
PgLlmQuota ==
  /\ pg.pc = "llm" /\ pg.llm = "quota"
  /\ pg' = IF pg.retries = 0
           THEN ContentDone(pg, processPageContent(pg.url, pg.disk, pg.llm).res,
                            processPageContent(pg.url, pg.disk, pg.llm).disk)
           ELSE [Sent(pg) EXCEPT !.retries = @ - 1]
  /\ UNCHANGED <<crawlVars, report, prior, rl, cli, saves, pool>>

\* the request failed with another error
PgLlmError ==
  /\ pg.pc = "llm" /\ pg.llm = "error"
  /\ pg' = ContentDone(pg, processPageContent(pg.url, pg.disk, pg.llm).res,
                       processPageContent(pg.url, pg.disk, pg.llm).disk)
  /\ UNCHANGED <<crawlVars, report, prior, rl, cli, saves, pool>>

\* the safety check returned (or failed, which is only logged)
PgSafetyDone ==
  /\ pg.pc = "safety"
  /\ pg' = ContentDone(pg, processPageContent(pg.url, pg.disk, pg.llm).res,
                       processPageContent(pg.url, pg.disk, pg.llm).disk)
  /\ UNCHANGED <<crawlVars, report, prior, rl, cli, saves, pool>>

\* the fan-out is over: processPage returns, the result is stored, the page
\* and the slot are released
PgFanoutDone ==
  /\ pg.pc = "fanout"
  /\ pg' = PageSettled(pg, pg.pres, 1)
  /\ UNCHANGED <<crawlVars, report, prior, rl, cli, saves, pool>>

\* the timer of processPageInternal fires: cleanup(url)
PgProcessingTimeout ==
  /\ pg.timer
  /\ pg' = [pg EXCEPT !.timer = FALSE, !.fired = TRUE, !.releases = @ + 1]
  /\ UNCHANGED <<crawlVars, report, prior, rl, cli, saves, pool>>

\* the timer of processPage, set after the other with the same delay,
\* fires: page.close()
PgPageTimeout ==
  /\ pg.pageTimer /\ ~pg.timer
  /\ pg' = [pg EXCEPT !.pageTimer = FALSE, !.fired = TRUE, !.pageClosed = TRUE]
  /\ UNCHANGED <<crawlVars, report, prior, rl, cli, saves, pool>>

NextPage ==
  \/ PgRateAcquired
  \/ PgGotoOk
  \/ PgGotoFail
  \/ PgSettled
  \/ PgScrapeAcquired
  \/ PgScraped
  \/ PgLlmAcquired
  \/ PgLlmAnswered
  \/ PgLlmQuota
  \/ PgLlmError
  \/ PgSafetyDone
  \/ PgFanoutDone
  \/ PgProcessingTimeout
  \/ PgPageTimeout

SpecPage == InitPage /\ [][NextPage]_vars

\* ---------------------------------------------------------------- files
\* The file writers of concurrent visits: every caller runs, for its URL,
\* takeScreenshot, saveToFile(content) and saveToFile(processed) one after
\* the other, each with non-empty content.  saves = [now: the clock in ms,
\* dir: route directory -> set of file names <<type, timestamp>>, call:
\* caller -> [url, type: the file being written, pc, ts: the timestamp taken
\* at the call]].
NumSavers == 2
MaxSaveTicks == 1

Savers == 1..NumSavers

\* /a and /a.html have the same route directory
SaveUrls == {Ex("a"), Url("https", FALSE, "example.com", "a", "html", FALSE), Ex("b")}

\* the order of the writers in processPageContent; "" after the last
NextType(type) ==
  IF type = "screenshot" THEN "content"
  ELSE IF type = "content" THEN "processed"
  ELSE ""

\* the writer returned: the next writer is called, or the visit is through
Returned(c) ==
  IF NextType(c.type) = "" THEN [c EXCEPT !.pc = "done"]
  ELSE [c EXCEPT !.type = NextType(c.type), !.pc = "call"]

InitFiles ==
  /\ NoCrawl
  /\ rl = <<>>
  /\ cli = <<>>
  /\ pg = <<>>
  /\ pool = <<>>
  /\ \E urls \in [Savers -> SaveUrls] :
       /\ \A j, k \in Savers : urls[j] = urls[k] => j = k
       /\ saves = [now  |-> 0,
                   dir  |-> [d \in {generateRoutePath(u) : u \in SaveUrls} |-> {}],
                   call |-> [k \in Savers |->
                              [url |-> urls[k], type |-> "screenshot", pc |-> "call", ts |-> 0]]]

\* the writer is called: the timestamp, up to "await fs.access(dirPath)"
SaveCall(k) ==
  /\ saves.call[k].pc = "call"
  /\ saves' = [saves EXCEPT !.call[k].ts = saves.now, !.call[k].pc = "readdir"]
  /\ UNCHANGED <<crawlVars, report, prior, rl, cli, pg, pool>>

\* fs.readdir resolved: a file of the type is there and its path is
\* returned, or the file is going to be written
SaveReaddir(k) ==
  LET c == saves.call[k]
  IN /\ c.pc = "readdir"
     /\ saves' = [saves EXCEPT !.call[k] =
                    IF \E f \in saves.dir[generateRoutePath(c.url)] : f[1] = c.type
                    THEN Returned(c)
                    ELSE [c EXCEPT !.pc = "write"]]
     /\ UNCHANGED <<crawlVars, report, prior, rl, cli, pg, pool>>

\* fs.writeFile / page.screenshot resolved: the file `${type}_${timestamp}`
\* is in the directory
SaveWrite(k) ==
  LET c == saves.call[k]
  IN /\ c.pc = "write"
     /\ saves' = [saves EXCEPT !.dir[generateRoutePath(c.url)] = @ \cup {<<c.type, c.ts>>},
                              !.call[k] = Returned(c)]
     /\ UNCHANGED <<crawlVars, report, prior, rl, cli, pg, pool>>

\* a millisecond passes
SaveTick ==
  /\ saves.now < MaxSaveTicks
  /\ saves' = [saves EXCEPT !.now = @ + 1]
  /\ UNCHANGED <<crawlVars, report, prior, rl, cli, pg, pool>>

NextFiles ==
  \/ \E k \in Savers : SaveCall(k)
  \/ \E k \in Savers : SaveReaddir(k)
  \/ \E k \in Savers : SaveWrite(k)
  \/ SaveTick

SpecFiles == InitFiles /\ [][NextFiles]_vars

\* ---------------------------------------------------------------- thread pool
\* ThreadPool (src/src/classes/thread.ts) with its workers, which run either
\* the worker script of EnhancedWebScraper ("script") or a WorkerThread.
\* Every action is one handler, run to completion.  pool = [kind, initPc:
\* where initialize() is, workers, ready: workers that answered READY,
\* activeWorkers, taskQueue: task ids, callbacks: ids with a callback entry,
\* type: task id -> type ("none": not submitted), promise: task id -> state
\* of the promise of submitTask, inbox: worker -> messages posted to it, as
\* <<id, type>>, outbox: replies posted to the main thread, as <<worker, id,
\* type>>, browser: worker -> its browser is launched, handled: task ids
\* whose message a worker has handled, replies: task id -> replies posted].
\* The message that initialize() posts has id 0: no task has its id.
MaxWorkersCfg == 2
MaxTasks == 3

PoolWorkers == 1..MaxWorkersCfg
TaskIds == 1..MaxTasks

\* processNextTask
processNextTask(p) ==
  IF p.taskQueue = <<>> THEN p
  ELSE IF Cardinality(p.activeWorkers) >= MaxWorkersCfg THEN p
  ELSE IF p.workers \ p.activeWorkers = {} THEN p
  ELSE LET task == Head(p.taskQueue)
           availableWorker == CHOOSE w \in p.workers \ p.activeWorkers :
                                \A x \in p.workers \ p.activeWorkers : w <= x
       IN [p EXCEPT !.taskQueue = Tail(@),
                    !.activeWorkers = @ \cup {availableWorker},
                    !.inbox[availableWorker] = Append(@, <<task, p.type[task]>>)]

\* what a worker posts back for a message of that type that carries no
\* payload, as the task objects of the pool do: <<>> for nothing.  The
\* script answers INIT with READY and throws "Missing URL in task payload"
\* for TASK; handleMessage of WorkerThread ignores every type but TASK, and
\* for TASK reads payload.type, and payload.id in its catch block
workerReply(kind, type) ==
  IF kind = "script" THEN IF type = "INIT" THEN <<"READY">> ELSE <<"ERROR">>
  ELSE <<>>

InitPool ==
  /\ NoCrawl
  /\ rl = <<>>
  /\ cli = <<>>
  /\ pg = <<>>
  /\ saves = <<>>
  /\ \E kind \in {"script", "WorkerThread"} :
       pool = [kind |-> kind, initPc |-> "none", workers |-> {}, ready |-> {},
               activeWorkers |-> {}, taskQueue |-> <<>>, callbacks |-> {},
               type |-> [t \in TaskIds |-> "none"],
               promise |-> [t \in TaskIds |-> "none"],
               inbox |-> [w \in PoolWorkers |-> <<>>], outbox |-> <<>>,
               browser |-> [w \in PoolWorkers |-> FALSE],
               handled |-> {}, replies |-> [t \in TaskIds |-> 0]]

\* initialize() up to "await Promise.all(initializationPromises)"
PoolInitialize ==
  /\ pool.initPc = "none"
  /\ pool' = [pool EXCEPT !.initPc = "waiting", !.workers = PoolWorkers,
                          !.inbox = [w \in PoolWorkers |-> Append(pool.inbox[w], <<0, "INIT">>)]]
  /\ UNCHANGED <<crawlVars, report, prior, rl, cli, pg, saves>>

\* submitTask(type, url)
SubmitTask(type) ==
  /\ \E t \in TaskIds :
       /\ pool.type[t] = "none"
       /\ \A x \in TaskIds : x < t => pool.type[x] # "none"
       /\ pool' = processNextTask([pool EXCEPT !.type[t] = type, !.promise[t] = "pending",
                                               !.callbacks = @ \cup {t},
                                               !.taskQueue = Append(@, t)])
  /\ UNCHANGED <<crawlVars, report, prior, rl, cli, pg, saves>>

\* the message handler of worker w, for the oldest message posted to it
WorkerHandle(w) ==
  /\ pool.inbox[w] # <<>>
  /\ LET id    == Head(pool.inbox[w])[1]
         type  == Head(pool.inbox[w])[2]
         reply == workerReply(pool.kind, type)
     IN pool' = [pool EXCEPT
           !.inbox[w] = Tail(@),
           !.browser[w] = @ \/ (pool.kind = "script" /\ type = "INIT"),
           !.handled = IF id = 0 THEN @ ELSE @ \cup {id},
           !.replies = IF id = 0 \/ reply = <<>> THEN @ ELSE [@ EXCEPT ![id] = @ + 1],
           !.outbox = IF reply = <<>> THEN @ ELSE Append(@, <<w, id, reply[1]>>)]
  /\ UNCHANGED <<crawlVars, report, prior, rl, cli, pg, saves>>

\* worker.onmessage of the pool, and the onReady listener of initialize(),
\* for the oldest reply
PoolOnMessage ==
  /\ pool.outbox # <<>>
  /\ LET w     == Head(pool.outbox)[1]
         id    == Head(pool.outbox)[2]
         type  == Head(pool.outbox)[3]
         ready == IF type = "READY" /\ pool.initPc = "waiting"
                  THEN pool.ready \cup {w} ELSE pool.ready
         heard == [pool EXCEPT !.outbox = Tail(@), !.ready = ready,
                               !.initPc = IF @ = "waiting" /\ ready = pool.workers
                                          THEN "done" ELSE @]
     IN pool' = IF id \notin pool.callbacks THEN heard
                ELSE processNextTask(
                       [heard EXCEPT !.promise[id] = IF type = "RESULT" THEN "resolved"
                                                     ELSE IF type = "ERROR" THEN "rejected"
                                                     ELSE @,
                                     !.callbacks = @ \ {id},
                                     !.activeWorkers = @ \ {w}])
  /\ UNCHANGED <<crawlVars, report, prior, rl, cli, pg, saves>>

NextPool ==
  \/ PoolInitialize
  \/ \E type \in {"TASK", "INIT"} : SubmitTask(type)
  \/ \E w \in PoolWorkers : WorkerHandle(w)
  \/ PoolOnMessage

SpecPool == InitPool /\ [][NextPool]_vars

\* ================================================================ claims
ReturnedKeys == {e[1] : e \in returned[1].map}

HasReturned == returned # <<>>

\* C1 (as stated): while scrapeWebsite is crawling, page.goto has been
\* invoked at most once for every URL.
C1_NavigatedAtMostOnce ==
  mainPc = "crawl" => \A u \in DOMAIN navCount : navCount[u] <= 1

\* C2 (as stated): the number of open browser pages, pooled pages included,
\* never exceeds maxConcurrentPages.
C2_OpenPagesBounded == pagesOpen <= cfg.maxConcurrentPages

\* C3 (as stated): a visit invoked with depth > maxDepth takes no token and
\* no slot, never navigates, and returns Failed('Max depth reached').
C3_DepthRejectedAsMaxDepth ==
  \A c \in DOMAIN visits :
    visits[c].depth > cfg.maxDepth =>
      /\ visits[c].pc = "done"
      /\ ~visits[c].token /\ ~visits[c].slot /\ ~visits[c].nav
      /\ visits[c].out.kind = "ok"
      /\ visits[c].out.res.error = "Max depth reached"

\* C3 (amended): a visit invoked with depth > maxDepth takes no token and no
\* slot, never navigates, and returns at once a Failed result whose reason
\* is 'Max depth reached', or 'Scraper shutdown' when the shutdown flag was
\* set at the call; no page is navigated at a depth greater than maxDepth.
C3_DepthRejected ==
  \A c \in DOMAIN visits :
    /\ visits[c].depth > cfg.maxDepth =>
         /\ visits[c].pc = "done"
         /\ ~visits[c].token /\ ~visits[c].slot /\ ~visits[c].nav
         /\ visits[c].out.kind = "ok"
         /\ visits[c].out.res.kind = "error"
         /\ visits[c].out.res.error =
              (IF visits[c].sdAtCall THEN "Scraper shutdown" ELSE "Max depth reached")
    /\ visits[c].nav => visits[c].depth <= cfg.maxDepth

C3_Witness ==
  \E c \in DOMAIN visits :
    /\ visits[c].depth > cfg.maxDepth
    /\ ~visits[c].sdAtCall
    /\ visits[c].out.res.error = "Max depth reached"

C5_SizeEqualsClaimed ==
  (HasReturned /\ ~isShuttingDown /\ navFailed = {}) =>
    Cardinality(ReturnedKeys) = Cardinality(returned[1].claimed)

\* C6 (as stated): every URL a visit was invoked on has an entry in the
\* returned map.
C6_EveryAttemptedUrlReturned ==
  (HasReturned /\ ~isShuttingDown) => returned[1].attempted \subseteq ReturnedKeys

\* C7 (as stated): a stored result that is Failed with a navigation error
\* belongs to a URL whose own navigation failed.
C7_FailureStaysWithItsUrl ==
  \A i \in 1..Len(results) :
    results[i].v.error = "Navigation failed" => results[i].k \in navFailed

\* C8 (as stated): when scrapeWebsite returns, every visit has settled.
C8_AllSettledAtReturn ==
  (mainPc \in {"closing", "returned"} /\ ~isShuttingDown) =>
    \A c \in DOMAIN visits : visits[c].pc = "done"

\* C9 (as stated): no state is reachable in which a visit waits for a slot
\* while every slot is held by a visit that waits for its child visits.
SlotHolders == {c \in DOMAIN visits : visits[c].pc \in {"getpage", "goto", "content", "fanout"}}

C9_NoSlotDeadlock ==
  ~ /\ ~isShuttingDown
    /\ mainPc = "crawl"
    /\ semWaiting # <<>>
    /\ semFree = 0
    /\ \A c \in DOMAIN visits : visits[c].pc # "semgranted"
    /\ \A c \in SlotHolders :
         /\ visits[c].pc = "fanout"
         /\ \E k \in visits[c].batch : visits[k].pc = "sem"

\* C10: scrapeWebsite given a string that is no absolute URL rejects with
\* 'Invalid URL provided' and has created no directory, launched no browser
\* and changed neither the visited set, the pending map nor the results.
C10_InvalidUrlRejected ==
  rootInput.scheme = "" =>
    /\ mainPc \in {"start", "rejected"}
    /\ mainPc = "rejected" => mainError = "Invalid URL provided"
    /\ ~dirCreated
    /\ browser = "none"
    /\ processedUrls = {}
    /\ resultPromises = <<>>
    /\ results = <<>>
    /\ visits = <<>>

C10_Witness ==
  /\ rootInput.scheme = ""
  /\ mainPc = "rejected"
  /\ mainError = "Invalid URL provided"

\* C11 (as stated): in a second scrapeWebsite call with the same outputDir and
\* root URL, no URL that the first call completed is navigated, and every
\* such URL the second call reports has the contentPath and the
\* processedContentPath the first call reported.
C11_SecondRunSamePaths ==
  prior # <<>> =>
    \A e \in prior[1].map :
      e[2].kind = "ok" =>
        /\ e[1] \notin DOMAIN navCount
        /\ HasReturned =>
             \A f \in returned[1].map :
               f[1] = e[1] =>
                 /\ f[2].contentPath = e[2].contentPath
                 /\ f[2].processedContentPath = e[2].processedContentPath

\* C12 (as stated): when every LLM call fails with a quota error, every page
\* whose content was scraped has a result without error, a non-empty
\* processedContentPath, and a processed_* file holding the filtered text of
\* its content_* file.
C12_QuotaFallback ==
  cfg.llm = "quota" =>
    \A c \in DOMAIN visits :
      visits[c].pres.kind = "ok" =>
        LET files == FilesOf(diskContent, generateRoutePath(visits[c].url))
        IN /\ visits[c].pres.error = ""
           /\ visits[c].pres.processedContentPath # ""
           /\ files.processed = filterText(files.content)

RECURSIVE NavSum(_)
NavSum(S) ==
  IF S = {} THEN 0
  ELSE LET u == CHOOSE x \in S : TRUE IN navCount[u] + NavSum(S \ {u})

\* C13 (as stated), under SpecScenario: the returned map has exactly the keys
\* https://example.com and https://example.com/a, page.goto was invoked
\* exactly twice, and no key is on other.com.
C13_ScenarioKeys ==
  HasReturned =>
    /\ ReturnedKeys = {rootInput, Ex("a")}
    /\ NavSum(DOMAIN navCount) = 2
    /\ \A k \in ReturnedKeys : k.domain # "other.com"

\* a visit that has not started to drive a page
NotYetDriving(c) == visits[c].pc \in {"disk", "attached", "rate", "sem", "semgranted", "getpage"}

\* C14 (as stated): once the shutdown flag is set, no visit that has not yet
\* started to drive a page opens a page or navigates, and no visit launches
\* a browser.
C14_NoNewPageAfterShutdown ==
  [][isShuttingDown =>
       /\ \A c \in DOMAIN visits :
            (NotYetDriving(c) /\ c \in DOMAIN visits') => visits'[c].pc # "goto"
       /\ (browser = "none" /\ mainPc # "init") => browser' = "none"]_vars

\* a visit that is driving a page: page.goto, or the content extraction on
\* the page, is in flight
Driving(c) == visits[c].pc \in {"goto", "content"} /\ visits[c].pageOpen

\* C15: handleShutdown never closes the browser while some visit is still
\* driving a page: at the step in which the cleanup() of handleShutdown has
\* closed a running browser, no page.goto and no content extraction is in
\* flight.
C15_NoCloseWhileDriving ==
  [][(sdPc = "closing" /\ sdPc' = "report" /\ browser = "up") =>
       \A c \in DOMAIN visits : ~Driving(c)]_vars

\* C16: the report written on shutdown has totalUrls equal to the number of
\* URLs claimed during the run up to the shutdown, and its success count plus
\* its failure count equals the number of stored results.
C16_ReportTotals ==
  [][(report = <<>> /\ report' # <<>>) =>
       /\ report'[1].totalUrls = Cardinality(everClaimed)
       /\ report'[1].successfulUrls + Cardinality(report'[1].failedUrls)
            = Len(results)]_vars

C18_TokensNonNegative == rl.tokens >= 0

Contains(msg, part) == \E i \in 1..Len(msg) : msg[i] = part

\* the --url value is not a valid URL
InvalidUrlGiven == cli.args.url = <<>> \/ URLParse(cli.args.url[1]) = <<>>

InvalidUrlOutcome ==
  /\ ~cli.scraper /\ ~cli.scraped
  /\ cli.pc = "exited" => (cli.exitCode = 1 /\ Contains(cli.stderr, "Invalid URL: "))

SlotsHeld == {c \in DOMAIN visits :
                visits[c].pc \in {"semgranted", "getpage", "goto", "content", "fanout"}}

\* C20: every slot acquire of a visit is matched by exactly one release on
\* every exit path, and no release happens for a visit without a slot: free
\* slots + held slots = maxConcurrentPages in every reachable state.
C20_SlotsConserved == semFree + Cardinality(SlotsHeld) = cfg.maxConcurrentPages

\* C21: during a run, while scrapeWebsite is crawling and no shutdown is
\* under way, a URL that is in the visited set (processedUrls) stays in it.
C21_ClaimNeverRemoved ==
  [][(mainPc = "crawl" /\ mainPc' = "crawl" /\ ~isShuttingDown) =>
       processedUrls \subseteq processedUrls']_vars

\* the processPageInternal call that visit c started is in flight
Computing(c) ==
  visits[c].pc \in {"rate", "sem", "semgranted", "getpage", "goto", "content", "fanout"}

\* C22: as long as no shutdown is under way, the pending map (resultPromises)
\* holds an entry for a URL exactly while a computation for that URL is in
\* flight: every entry is the
\* computation in flight for its URL, and every computation in flight is the
\* entry of its URL (hence there is one computation per URL at a time).
C22_PendingExact ==
  ~isShuttingDown =>
    /\ \A u \in DOMAIN resultPromises :
         /\ resultPromises[u] \in DOMAIN visits
         /\ Computing(resultPromises[u])
         /\ visits[resultPromises[u]].url = u
    /\ \A c \in DOMAIN visits :
         Computing(c) => /\ visits[c].url \in DOMAIN resultPromises
                         /\ resultPromises[visits[c].url] = c

\* the PageResult invariant: an error comes with empty paths; no error comes
\* with the paths of a content_ and a processed_ file in the directory of the
\* URL, both on disk
ValidPageResult(r) ==
  IF r.error # ""
  THEN r.contentPath = "" /\ r.processedContentPath = ""
  ELSE LET dir == generateRoutePath(r.url)
       IN /\ r.contentPath = FilePath(dir, "content")
          /\ r.processedContentPath = FilePath(dir, "processed")
          /\ FilesOf(diskContent, dir).content # <<>>
          /\ FilesOf(diskContent, dir).processed # <<>>

\* C23: every PageResult stored in this.results or returned by
\* scrapeWebsite satisfies the PageResult invariant.
C23_ResultsValid ==
  /\ \A i \in 1..Len(results) : ValidPageResult(results[i].v)
  /\ returned # <<>> => \A e \in returned[1].map : ValidPageResult(e[2])

\* C24: once a PageResult has been stored for a URL during a run, a later
\* step of the same run leaves the result stored for that URL as it is
\* (first run of a WebScraper, while scrapeWebsite is crawling).
C24_StoredResultUnchanged ==
  [][(mainPc = "crawl" /\ mainPc' = "crawl" /\ prior = <<>>) =>
       \A u \in LruKeys(results) \cap LruKeys(results') :
          LruVal(results', u) = LruVal(results, u)]_vars

\* visit c awaits the Promise.all of a batch with a child visit not settled
AwaitsChildren(c) ==
  /\ visits[c].pc = "fanout"
  /\ \E k \in visits[c].batch : visits[k].pc # "done"

\* C25: no visit holds a concurrency slot (acquired and not yet released)
\* while it awaits its child visits.
C25_NoSlotDuringFanout ==
  \A c \in DOMAIN visits : AwaitsChildren(c) => ~(visits[c].slot /\ c \in SlotsHeld)

\* the keys of the visited set and of the result map
UrlKeys == processedUrls \cup LruKeys(results)

\* C26: every key of the visited set and of the result map is a normalized
\* URL (normalizeUrl gives it back), and no two keys normalize to the same
\* URL.
C26_KeysNormalized ==
  /\ \A u \in UrlKeys : normalizeUrl(u) = <<u>>
  /\ \A u, w \in UrlKeys : normalizeUrl(u) = normalizeUrl(w) => u = w

\* the visits that processPage of visit c started
ChildrenOf(c) == {k \in DOMAIN visits : Len(k) = Len(c) + 1 /\ SubSeq(k, 1, Len(c)) = c}

InFlightChildren(c) == {k \in ChildrenOf(c) : visits[k].pc # "done"}

\* C28: the links of a page are visited in consecutive batches of at most
\* batchSize (3) links, each at depth + 1: the child visits in flight all
\* belong to the batch started last, so no visit of a batch starts before
\* every visit of the batch before it has settled, and at most 3 child
\* visits of one parent are in flight.
C28_BatchedFanout ==
  \A c \in DOMAIN visits :
     /\ Cardinality(visits[c].batch) <= batchSize
     /\ InFlightChildren(c) \subseteq visits[c].batch
     /\ Cardinality(InFlightChildren(c)) <= batchSize
     /\ \A k \in ChildrenOf(c) : visits[k].depth = visits[c].depth + 1

\* a second batch is in flight
C28_Witness ==
  \E c \in DOMAIN visits :
     /\ visits[c].pc = "fanout"
     /\ visits[c].next > 1 + batchSize
     /\ InFlightChildren(c) # {}
     /\ Cardinality(ChildrenOf(c)) > batchSize

\* C27: every page navigation and every request sent to the LLM is preceded
\* by its own completed RateLimiter.acquire() call.
C27_EveryRequestAcquired == pg.unpaid = 0

\* C29: if a processing timeout fired while the URL was being processed, the
\* result stored for the URL is a Failed result.
C29_TimeoutGivesFailed ==
  (pg.fired /\ pg.pc = "done") => pg.result[1].error # ""

\* the reasons of the results of technical failures
TechnicalReasons == {"Navigation failed", "Failed to scrape content", "Target closed"}

\* C30: when the content policy rejected the URL, the stored result is
\* Failed with a reason that no technical failure produces.
C30_PolicyReasonDistinct ==
  (pg.rejected /\ pg.pc = "done") =>
     /\ pg.result[1].error # ""
     /\ pg.result[1].error \notin TechnicalReasons

\* C31: when the LLM call fails with an error that is not a quota error and
\* the filtered text is not empty, the page is not failed and its processed
\* file holds the filtered text.
C31_ErrorFallback ==
  [][PgLlmError =>
       /\ pg'.pres.error = ""
       /\ FilesOf(pg'.disk, generateRoutePath(pg.url)).processed
            = filterText(PageText(pg.url))]_vars

\* C32: no URL whose path ends in a non-textual file extension is ever
\* claimed or navigated, be it a discovered link or the root URL.
C32_NoNonTextualClaimed ==
  /\ \A u \in processedUrls : ~isNonTextualFile(u)
  /\ \A c \in DOMAIN visits :
       visits[c].pc \in {"goto", "content", "fanout"} => ~isNonTextualFile(visits[c].url)

\* C33: every route directory holds at most one content_ file, at most one
\* processed_ file and at most one screenshot_ file, also when visits of
\* URLs with the same route directory run concurrently.
C33_OneFilePerType ==
  \A d \in DOMAIN saves.dir : \A type \in {"screenshot", "content", "processed"} :
     Cardinality({f \in saves.dir[d] : f[1] = type}) <= 1

\* a step in which caller p ran refill()
Refilled(p) == rl'.pc[p] # rl.pc[p] /\ rl'.pc[p] \in {"refilled", "woken"}

\* C34: after every refill the balance is min(maxTokens, previous balance +
\* floor(elapsed_ms * refillRate / 1000)), and the balance never exceeds
\* maxTokens.
C34_RefillCapped ==
  /\ [](rl.tokens <= rl.maxTokens)
  /\ [][\A p \in Callers : Refilled(p) =>
           /\ rl'.tokens = Min(rl.maxTokens,
                               rl.tokens + ((rl.now - rl.lastRefill) * refillRate) \div 1000)
           /\ rl'.lastRefill = rl.now]_vars

\* a refill ran two seconds after the start, after a token was taken, and
\* the balance is at the cap
C34_Witness ==
  /\ rl.now >= 2000 /\ rl.lastRefill = rl.now /\ rl.tokens = rl.maxTokens
  /\ \E p, q \in Callers : rl.pc[p] = "refilled" /\ rl.pc[q] = "done"

\* C35: every acquire() call returns after at most one sleep of
\* 1000/refillRate ms: a caller that slept takes its token when it wakes,
\* whatever the balance and the other callers, and is not suspended again.
C35_OneSleep ==
  /\ [](\A p \in Callers :
          /\ (rl.pc[p] = "sleeping" /\ rl.now >= rl.wake[p]) => ENABLED AcquireWake(p)
          /\ rl.pc[p] = "woken" => ENABLED AcquireTake(p))
  /\ [][\A p \in Callers :
          /\ (rl.pc[p] # "sleeping" /\ rl'.pc[p] = "sleeping") =>
                (rl.pc[p] = "refilled" /\ rl'.wake[p] = rl.now + 1000 \div refillRate)
          /\ rl.pc[p] = "sleeping" => rl'.pc[p] \in {"sleeping", "woken"}
          /\ rl.pc[p] = "woken" => rl'.pc[p] \in {"woken", "done"}]_vars

\* two callers slept at the same time and both have returned
C35_Witness ==
  \E p, q \in Callers :
     /\ p # q
     /\ rl.pc[p] = "done" /\ rl.wake[p] > 0
     /\ rl.pc[q] = "done" /\ rl.wake[q] = rl.wake[p]

\* C36: once the reply that carries a task's id has reached the pool, the
\* promise of submitTask is resolved or rejected: the callback entry of a
\* task is never removed while its promise is pending.
C36_CallbackKeptWhilePending ==
  \A t \in TaskIds : pool.promise[t] = "pending" => t \in pool.callbacks

\* C37: for every TASK message that a WorkerThread has handled, the ones
\* posted by processNextTask included, the worker has posted exactly one
\* reply with the id of the message.
C37_OneReplyPerTask ==
  pool.kind = "WorkerThread" =>
    \A t \in pool.handled : pool.type[t] = "TASK" => pool.replies[t] = 1

\* the tasks that worker w has been given and the pool has heard no reply to
Unanswered(w) ==
  {i \in 1..Len(pool.inbox[w]) : pool.inbox[w][i][1] # 0}
    \cup {<<i>> : i \in {j \in 1..Len(pool.outbox) :
                            pool.outbox[j][1] = w /\ pool.outbox[j][2] # 0}}

\* C40: between the handlers of the pool, a non-empty task queue implies
\* that every worker is active, and no worker holds a second task.
C40_NoIdleWorkerWithQueue ==
  /\ pool.taskQueue # <<>> => pool.workers \subseteq pool.activeWorkers
  /\ \A w \in PoolWorkers : Cardinality(Unanswered(w)) <= 1

LinkedFrom(S) ==
  UNION {{normalizeUrl(SiteLinks(u)[i])[1] :
            i \in {j \in 1..Len(SiteLinks(u)) :
                      /\ isSameOrigin(SiteLinks(u)[j], rootInput)
                      /\ normalizeUrl(SiteLinks(u)[j]) # <<>>
                      /\ ~isNonTextualFile(normalizeUrl(SiteLinks(u)[j])[1])}} : u \in S}

\* the URLs at a link distance of at most n from the pages of S
RECURSIVE WithinDistance(_, _)
WithinDistance(S, n) ==
  IF n = 0 THEN S ELSE WithinDistance(S \cup LinkedFrom(S), n - 1)

\* C39: when a run completes with no page failing, every same-origin
\* textual URL at a shortest link distance of at most maxDepth from the root
\* has an entry in the returned map.
C39_AllWithinDepthReturned ==
  (/\ HasReturned /\ ~isShuttingDown /\ prior = <<>> /\ navFailed = {}
   /\ \A e \in returned[1].map : e[2].error = "")
    => WithinDistance({rootInput}, cfg.maxDepth) \subseteq ReturnedKeys
====
